---- MODULE Spec2Model ----
(***************************************************************************)
(* Model of ublox_gps/include/ublox_gps/utils.hpp: the range validator     *)
(* (checkRange), the typed parameter accessors (getRosUint / getRosInt),   *)
(* the boolean accessors (declareRosBoolean / getRosBoolean) and           *)
(* toUtcSeconds.                                                           *)
(*                                                                         *)
(* Machine integers are kept as two limbs, value = hi * 2^16 + lo with     *)
(* 0 <= lo < 2^16, so that unsigned 32-bit values and epoch seconds beyond *)
(* 2^31 are represented exactly.                                           *)
(***************************************************************************)
EXTENDS Integers, Sequences, FiniteSets, TLC

VARIABLES args, res, store, utype, u, uvec, ncalls, calls, pc, loc, writes

vars == <<args, res, store, utype, u, uvec, ncalls, calls, pc, loc, writes>>

----------------------------------------------------------------------------
(* Bounds of the model *)

\* longest sequence stored under a key / passed to the sequence checkRange
MaxLen == 2

\* longest initial content of the caller's output sequence
MaxOutLen == 1

\* number of integer accessor calls made in one behaviour
MaxCalls == 2

\* number of boolean accessor calls made in one behaviour
MaxBoolCalls == 3

\* the calendar window: years before and after the epoch year
YearsBefore == 71

YearsAfter == 131

----------------------------------------------------------------------------
(* Integers *)

Limb == 2 ^ 16

Num(h, l) == [hi |-> h, lo |-> l]

\* the limb form of a number small enough to be written directly
FromInt(n) == Num(n \div Limb, n % Limb)

\* mathematical order on limb numbers
Lt(a, b) == a.hi < b.hi \/ (a.hi = b.hi /\ a.lo < b.lo)

Gt(a, b) == Lt(b, a)

IsNeg(a) == a.hi < 0

\* mathematical sum of a limb number and a small integer
Plus(a, n) == Num(a.hi + ((a.lo + n) \div Limb), (a.lo + n) % Limb)

(* Integer types: signedness and width *)
IntT(s, b) == [signed |-> s, bits |-> b]

Int8 == IntT(TRUE, 8)

UInt8 == IntT(FALSE, 8)

Int16 == IntT(TRUE, 16)

UInt16 == IntT(FALSE, 16)

Int32 == IntT(TRUE, 32)

UInt32 == IntT(FALSE, 32)

SignedTypes == {Int8, Int16, Int32}

UnsignedTypes == {UInt8, UInt16, UInt32}

IntTypes == SignedTypes \cup UnsignedTypes

\* the type of 'int param' and of the elements of 'std::vector<int> param'
ParamT == Int32

\* std::numeric_limits<T>::lowest()
Lowest(T) ==
  IF ~T.signed THEN Num(0, 0)
  ELSE IF T.bits = 32 THEN Num(-(2 ^ 15), 0)
  ELSE FromInt(-(2 ^ (T.bits - 1)))

\* std::numeric_limits<T>::max()
Max(T) ==
  IF T.bits = 32
    THEN Num((IF T.signed THEN 2 ^ 15 ELSE 2 ^ 16) - 1, Limb - 1)
    ELSE FromInt((IF T.signed THEN 2 ^ (T.bits - 1) ELSE 2 ^ T.bits) - 1)

\* conversion of an integer value to the integer type T: the value modulo
\* 2^bits, read as signed when T is signed
Convert(v, T) ==
  IF T.bits = 32
    THEN Num(IF T.signed THEN ((v.hi + 2 ^ 15) % Limb) - 2 ^ 15
                         ELSE v.hi % Limb, v.lo)
    ELSE LET m == v.lo % (2 ^ T.bits)
         IN  FromInt(IF T.signed /\ m >= 2 ^ (T.bits - 1)
                       THEN m - 2 ^ T.bits ELSE m)

\* integral promotion: a type narrower than int becomes int
Promote(T) == IF T.bits < 32 THEN Int32 ELSE T

\* the usual arithmetic conversions: the common type in which a binary
\* comparison of a V operand and a T operand is made
CommonType(V, T) ==
  IF Promote(V) = UInt32 \/ Promote(T) = UInt32 THEN UInt32 ELSE Int32

\* the C++ expression  a < b  with a of type V and b of type T
CppLess(a, V, b, T) ==
  Lt(Convert(a, CommonType(V, T)), Convert(b, CommonType(V, T)))

\* the C++ expression  a > b  with a of type V and b of type T
CppGreater(a, V, b, T) ==
  Gt(Convert(a, CommonType(V, T)), Convert(b, CommonType(V, T)))

----------------------------------------------------------------------------
(* Range validator *)

NoError == [kind |-> "none"]

\* the std::runtime_error of checkRange: "Invalid settings: <name> must be
\* in range [<min>, <max>]."
RangeError(name, min, max) ==
  [kind |-> "range", name |-> name, min |-> min, max |-> max]

\* name followed by "[" i "]"
IndexedName(name, i) == name \o <<i>>

\* scalar checkRange(val, min, max, name): the failure it raises, or NoError
checkRange(val, V, min, max, T, name) ==
  IF CppLess(val, V, min, T) \/ CppGreater(val, V, max, T)
    THEN RangeError(name, min, max)
    ELSE NoError

\* the loop of the sequence checkRange from index i on (indices from 0);
\* seen is the sequence of indices examined so far
RECURSIVE checkRangeLoop(_, _, _, _, _, _, _, _)
checkRangeLoop(val, V, min, max, T, name, i, seen) ==
  IF ~(i < Len(val))
    THEN [err |-> NoError, examined |-> seen]
    ELSE LET e == checkRange(val[i + 1], V, min, max, T, IndexedName(name, i))
         IN  IF e # NoError
               THEN [err |-> e, examined |-> Append(seen, i)]
               ELSE checkRangeLoop(val, V, min, max, T, name, i + 1,
                                   Append(seen, i))

\* sequence checkRange(val, min, max, name)
checkRangeVec(val, V, min, max, T, name) ==
  checkRangeLoop(val, V, min, max, T, name, 0, <<>>)

----------------------------------------------------------------------------
(* Inputs *)

\* the values of type T the inputs are drawn from: its two limits and the
\* values around zero
Samples(T) ==
  {Lowest(T), Max(T), FromInt(0), FromInt(1)}
    \cup (IF T.signed THEN {FromInt(-1)} ELSE {})

\* the sequences over S of length at most n
SeqsUpTo(S, n) == UNION {[1..k -> S] : k \in 0..n}

\* parameter names
Keys == {<<"k">>}

\* the value of a variable a specification does not use
Unused == <<>>

NoResult == [fn |-> "none"]

----------------------------------------------------------------------------
(* Specification of the range validator: Init draws the arguments, the     *)
(* actions apply checkRange to them.                                       *)

ScalarArgs ==
  UNION {[fn : {"checkRange"}, V : {V}, T : {T}, val : Samples(V),
          min : Samples(T), max : Samples(T), name : Keys]
           : <<V, T>> \in IntTypes \X IntTypes}

VectorArgs ==
  UNION {[fn : {"checkRangeVec"}, V : {V}, T : {T},
          val : SeqsUpTo(Samples(V), MaxLen),
          min : Samples(T), max : Samples(T), name : Keys]
           : <<V, T>> \in {ParamT} \X IntTypes}

InitRange ==
  /\ args \in ScalarArgs \cup VectorArgs
  /\ res = NoResult
  /\ store = Unused /\ utype = Unused /\ u = Unused /\ uvec = Unused
  /\ ncalls = Unused /\ calls = Unused /\ pc = Unused /\ loc = Unused
  /\ writes = Unused

CallCheckRange ==
  /\ args.fn = "checkRange" /\ res = NoResult
  /\ res' = [fn |-> "checkRange",
             err |-> checkRange(args.val, args.V, args.min, args.max, args.T,
                                args.name)]
  /\ UNCHANGED <<args, store, utype, u, uvec, ncalls, calls, pc, loc, writes>>

CallCheckRangeVec ==
  /\ args.fn = "checkRangeVec" /\ res = NoResult
  /\ LET r == checkRangeVec(args.val, args.V, args.min, args.max, args.T,
                            args.name)
     IN  res' = [fn |-> "checkRangeVec", err |-> r.err,
                 examined |-> r.examined]
  /\ UNCHANGED <<args, store, utype, u, uvec, ncalls, calls, pc, loc, writes>>

NextRange == CallCheckRange \/ CallCheckRangeVec

SpecRange == InitRange /\ [][NextRange]_vars

\* v lies outside [lo, hi] as integers
OutOfBound(v, lo, hi) == Lt(v, lo) \/ Gt(v, hi)

\* C2: scalar checkRange raises if and only if val < min or val > max as
\* mathematical integers, whatever the widths and signedness of the value
\* and of the bounds.
C2_ScalarRaisesIffOutOfBound ==
  res.fn = "checkRange" =>
    ((res.err # NoError) <=> OutOfBound(args.val, args.min, args.max))

\* the indices (from 0) of the elements of s outside [lo, hi]
BadIndices(s, lo, hi) ==
  {i \in 0..(Len(s) - 1) : OutOfBound(s[i + 1], lo, hi)}

MinOf(S) == CHOOSE i \in S : \A j \in S : i <= j

\* C3: sequence checkRange examines the elements in ascending index order
\* and raises exactly when some element is outside [min, max]; the failure
\* is the one of the smallest such index i, named name[i], and no element
\* after i is examined; otherwise every element is examined and nothing is
\* raised.
C3_SequenceFailsAtFirstBadIndex ==
  res.fn = "checkRangeVec" =>
    LET bad == BadIndices(args.val, args.min, args.max)
    IN  IF bad = {}
          THEN /\ res.err = NoError
               /\ res.examined = [k \in 1..Len(args.val) |-> k - 1]
          ELSE /\ res.err # NoError
               /\ res.err.name = IndexedName(args.name, MinOf(bad))
               /\ res.examined = [k \in 1..(MinOf(bad) + 1) |-> k - 1]

----------------------------------------------------------------------------
(* Configuration store (ros::NodeHandle), one typed value per key *)

Absent == [type |-> "absent"]

IntValue(v) == [type |-> "int", val |-> v]

ListValue(s) == [type |-> "list", elems |-> s]

BoolValue(b) == [type |-> "bool", flag |-> b]

\* node->getParam(key, int&): found only when the key holds an integer
getParamInt(node, key) ==
  IF node[key].type = "int"
    THEN [found |-> TRUE, val |-> node[key].val]
    ELSE [found |-> FALSE]

\* node->getParam(key, std::vector<int>&)
getParamIntVec(node, key) ==
  IF node[key].type = "list"
    THEN [found |-> TRUE, val |-> node[key].elems]
    ELSE [found |-> FALSE]

\* node->hasParam(name)
hasParam(node, name) == node[name].type # "absent"

\* node->getParam(name, bool&): found only when the key holds a boolean
getParamBool(node, name) ==
  IF node[name].type = "bool"
    THEN [found |-> TRUE, val |-> node[name].flag]
    ELSE [found |-> FALSE]

\* node->setParam(name, bool)
setParamBool(node, name, b) == [node EXCEPT ![name] = BoolValue(b)]

----------------------------------------------------------------------------
(* Typed parameter accessor.  Each operator gives the outcome of one call: *)
(* whether it raised, the value it returned (found), the failure, the      *)
(* caller's output variable after the call and the number of store reads.  *)

Outcome(raised, found, err, out, reads) ==
  [raised |-> raised, found |-> found, err |-> err, u |-> out,
   reads |-> reads]

\* bool getRosUint(node, key, U &u)
getRosUint(node, key, U, uOld) ==
  LET param == getParamInt(node, key)
  IN  IF ~param.found
        THEN Outcome(FALSE, FALSE, NoError, uOld, 1)
        ELSE LET e == checkRange(param.val, ParamT, Lowest(U), Max(U), U, key)
             IN  IF e # NoError
                   THEN Outcome(TRUE, FALSE, e, uOld, 1)
                   ELSE Outcome(FALSE, TRUE, NoError, Convert(param.val, U), 1)

\* void getRosUint(node, key, U &u, V default_val)
getRosUintDefault(node, key, U, uOld, default_val) ==
  LET r == getRosUint(node, key, U, uOld)
  IN  IF ~r.raised /\ ~r.found
        THEN [r EXCEPT !.u = Convert(default_val, U)]
        ELSE r

\* getRosUintVec with the insertion moved before the bounds check
getRosUintVec_InsertFirst(node, key, U, uOld) ==
  LET param == getParamIntVec(node, key)
  IN  IF ~param.found
        THEN Outcome(FALSE, FALSE, NoError, uOld, 1)
        ELSE LET c == checkRangeVec(param.val, ParamT, Lowest(U), Max(U), U,
                                    key)
                 out == [i \in 1..Len(param.val) |->
                           Convert(param.val[i], U)] \o uOld
             IN  Outcome(c.err # NoError, c.err = NoError, c.err, out, 1)

\* bool getRosUint(node, key, std::vector<U> &u)
getRosUintVec(node, key, U, uOld) ==
  LET param == getParamIntVec(node, key)
  IN  IF ~param.found
        THEN Outcome(FALSE, FALSE, NoError, uOld, 1)
        ELSE LET c == checkRangeVec(param.val, ParamT, Lowest(U), Max(U), U,
                                    key)
             IN  IF c.err # NoError
                   THEN Outcome(TRUE, FALSE, c.err, uOld, 1)
                   ELSE Outcome(FALSE, TRUE, NoError,
                                [i \in 1..Len(param.val) |->
                                   Convert(param.val[i], U)] \o uOld, 1)

\* bool getRosInt(node, key, I &u)
getRosInt(node, key, I, uOld) ==
  LET param == getParamInt(node, key)
  IN  IF ~param.found
        THEN Outcome(FALSE, FALSE, NoError, uOld, 1)
        ELSE LET e == checkRange(param.val, ParamT, Lowest(I), Max(I), I, key)
             IN  IF e # NoError
                   THEN Outcome(TRUE, FALSE, e, uOld, 1)
                   ELSE Outcome(FALSE, TRUE, NoError, Convert(param.val, I), 1)

\* void getRosInt(node, key, U &u, V default_val)
getRosIntDefault(node, key, I, uOld, default_val) ==
  LET r == getRosInt(node, key, I, uOld)
  IN  IF ~r.raised /\ ~r.found
        THEN [r EXCEPT !.u = Convert(default_val, I)]
        ELSE r

\* bool getRosInt(node, key, std::vector<I> &i)
getRosIntVec(node, key, I, uOld) ==
  LET param == getParamIntVec(node, key)
  IN  IF ~param.found
        THEN Outcome(FALSE, FALSE, NoError, uOld, 1)
        ELSE LET c == checkRangeVec(param.val, ParamT, Lowest(I), Max(I), I,
                                    key)
             IN  IF c.err # NoError
                   THEN Outcome(TRUE, FALSE, c.err, uOld, 1)
                   ELSE Outcome(FALSE, TRUE, NoError,
                                [k \in 1..Len(param.val) |->
                                   Convert(param.val[k], I)] \o uOld, 1)

----------------------------------------------------------------------------
(* Specification of the integer accessors: Init draws the store content,   *)
(* the target type and the caller's output variables; each action is one   *)
(* accessor call.                                                          *)

\* stored integers: the limits of every target type and their neighbours
StoredInts ==
  {Lowest(Int32), Max(Int32), FromInt(-32769), FromInt(-32768),
   FromInt(-129), FromInt(-128), FromInt(-1), FromInt(0), FromInt(100),
   FromInt(127), FromInt(128), FromInt(200), FromInt(255), FromInt(256),
   FromInt(32767), FromInt(32768), FromInt(65535), FromInt(65536)}

\* elements of stored sequences
StoredElems == {FromInt(-1), FromInt(0), FromInt(100), FromInt(256),
                Max(Int32)}

StoredValues ==
  {Absent} \cup {IntValue(v) : v \in StoredInts}
    \cup {ListValue(s) : s \in SeqsUpTo(StoredElems, MaxLen)}

\* initial contents of the caller's output variables
OutInts == {FromInt(0), FromInt(7)}

OutElems == {FromInt(7), FromInt(9)}

\* default values passed by callers (int literals)
Defaults == {FromInt(5), FromInt(-1), FromInt(300)}

InitGet ==
  /\ store \in [Keys -> StoredValues]
  /\ utype \in IntTypes
  /\ u \in OutInts
  /\ uvec \in SeqsUpTo(OutElems, MaxOutLen)
  /\ ncalls = 0
  /\ res = NoResult
  /\ args = Unused /\ calls = Unused /\ pc = Unused /\ loc = Unused
  /\ writes = Unused

\* the record of a completed call: its outcome and the state it started in
CallRecord(fn, key, out, dflt) ==
  [fn |-> fn, key |-> key, out |-> out, dflt |-> dflt, node |-> store,
   pre_u |-> u, pre_uvec |-> uvec]

CallGetRosUint(key) ==
  /\ ~utype.signed /\ ncalls < MaxCalls
  /\ LET r == getRosUint(store, key, utype, u)
     IN  /\ u' = r.u
         /\ res' = CallRecord("getRosUint", key, r, Unused)
  /\ ncalls' = ncalls + 1
  /\ UNCHANGED <<args, store, utype, uvec, calls, pc, loc, writes>>

CallGetRosUintDefault(key, d) ==
  /\ ~utype.signed /\ ncalls < MaxCalls
  /\ LET r == getRosUintDefault(store, key, utype, u, d)
     IN  /\ u' = r.u
         /\ res' = CallRecord("getRosUintDefault", key, r, d)
  /\ ncalls' = ncalls + 1
  /\ UNCHANGED <<args, store, utype, uvec, calls, pc, loc, writes>>

CallGetRosUintVec(key) ==
  /\ ~utype.signed /\ ncalls < MaxCalls
  /\ LET r == getRosUintVec(store, key, utype, uvec)
     IN  /\ uvec' = r.u
         /\ res' = CallRecord("getRosUintVec", key, r, Unused)
  /\ ncalls' = ncalls + 1
  /\ UNCHANGED <<args, store, utype, u, calls, pc, loc, writes>>

CallGetRosInt(key) ==
  /\ utype.signed /\ ncalls < MaxCalls
  /\ LET r == getRosInt(store, key, utype, u)
     IN  /\ u' = r.u
         /\ res' = CallRecord("getRosInt", key, r, Unused)
  /\ ncalls' = ncalls + 1
  /\ UNCHANGED <<args, store, utype, uvec, calls, pc, loc, writes>>

CallGetRosIntDefault(key, d) ==
  /\ utype.signed /\ ncalls < MaxCalls
  /\ LET r == getRosIntDefault(store, key, utype, u, d)
     IN  /\ u' = r.u
         /\ res' = CallRecord("getRosIntDefault", key, r, d)
  /\ ncalls' = ncalls + 1
  /\ UNCHANGED <<args, store, utype, uvec, calls, pc, loc, writes>>

CallGetRosIntVec(key) ==
  /\ utype.signed /\ ncalls < MaxCalls
  /\ LET r == getRosIntVec(store, key, utype, uvec)
     IN  /\ uvec' = r.u
         /\ res' = CallRecord("getRosIntVec", key, r, Unused)
  /\ ncalls' = ncalls + 1
  /\ UNCHANGED <<args, store, utype, u, calls, pc, loc, writes>>

NextGet ==
  \E key \in Keys :
    \/ CallGetRosUint(key)
    \/ \E d \in Defaults : CallGetRosUintDefault(key, d)
    \/ CallGetRosUintVec(key)
    \/ CallGetRosInt(key)
    \/ \E d \in Defaults : CallGetRosIntDefault(key, d)
    \/ CallGetRosIntVec(key)

SpecGet == InitGet /\ [][NextGet]_vars

ScalarFns == {"getRosUint", "getRosInt"}

DefaultFns == {"getRosUintDefault", "getRosIntDefault"}

VecFns == {"getRosUintVec", "getRosIntVec"}

\* v is outside the representable range of T
OutOfType(v, T) == OutOfBound(v, Lowest(T), Max(T))

\* C1: on a present integer key the scalar accessor either raises or returns
\* found with an output numerically equal to the stored value, and it
\* raises whenever the stored value is below min(T) or above max(T); it
\* never returns a wrapped or truncated value.
C1_ScalarRaisesOrReturnsStoredValue ==
  (res.fn \in ScalarFns /\ res.node[res.key].type = "int") =>
    LET v == res.node[res.key].val
    IN  /\ res.out.raised \/ (res.out.found /\ u = v)
        /\ OutOfType(v, utype) => res.out.raised

\* C4: when the sequence accessor returns found, the output sequence has
\* exactly the length and the elements of the stored sequence, whatever it
\* contained before the call.
C4_SequenceOutputEqualsStored ==
  (res.fn \in VecFns /\ ~res.out.raised /\ res.out.found) =>
    uvec = res.node[res.key].elems

\* C5: the accessor with a default (a value of T) returns the default,
\* numerically, without raising, after one store read and no write, when
\* the key is absent; the
\* stored value when it is present and in T's range; and raises, without
\* falling back to the default, when it is present and out of T's range.
C5_DefaultOnlyWhenAbsent ==
  res.fn \in DefaultFns =>
    LET sv == res.node[res.key]
    IN  /\ res.out.reads = 1 /\ store = res.node
        /\ (sv = Absent /\ ~OutOfType(res.dflt, utype)) =>
             (~res.out.raised /\ u = res.dflt)
        /\ (sv.type = "int" /\ ~OutOfType(sv.val, utype)) =>
             (~res.out.raised /\ u = sv.val)
        /\ (sv.type = "int" /\ OutOfType(sv.val, utype)) =>
             (res.out.raised /\ u = res.pre_u)

\* C10: when a scalar or sequence accessor without default returns
\* found=false or raises, the caller's output variable and output sequence
\* hold what they held before the call.
C10_OutputUntouchedOnFailure ==
  (res.fn \in ScalarFns \cup VecFns /\ (res.out.raised \/ ~res.out.found)) =>
    (u = res.pre_u /\ uvec = res.pre_uvec)

\* C10 witness: a sequence accessor raised on a stored sequence whose first
\* element is in range and a later one is not, with a non-empty output
\* sequence.
C10_Witness ==
  /\ res.fn \in VecFns /\ res.out.raised
  /\ res.pre_uvec # <<>>
  /\ Len(res.node[res.key].elems) >= 2
  /\ ~OutOfType(res.node[res.key].elems[1], utype)
  /\ res.out.err.name = IndexedName(res.key, 1)
  /\ uvec = res.pre_uvec

----------------------------------------------------------------------------
(* Boolean accessors.  declareRosBoolean is a sequence of store operations *)
(* (hasParam, setParam, getParam), each atomic in the store, so a call is  *)
(* modelled step by step for every caller; getRosBoolean is one read.      *)

Procs == {"p1", "p2"}

\* the std::runtime_error "Required parameter '<name>' has the wrong type
\* (expected bool)"
TypeError(name) == [kind |-> "type", name |-> name]

Returned(v) == [kind |-> "returned", value |-> v]

Raised(e) == [kind |-> "raised", err |-> e]

Crashed == [kind |-> "crashed"]

\* declareRosBoolean is declared to return bool and flows off its end
\* without a return statement: undefined behaviour.  A build returns
\* whatever the return register holds, traps, or (the end being taken as
\* unreachable) takes the throwing branch.
FlowsOffEnd(name) ==
  {Returned(TRUE), Returned(FALSE), Crashed, Raised(TypeError(name))}

BoolStoredValues == {Absent, BoolValue(TRUE), BoolValue(FALSE),
                     IntValue(FromInt(1))}

Idle == [fn |-> "idle"]

InitBool ==
  /\ store \in [Keys -> BoolStoredValues]
  /\ pc = [p \in Procs |-> "idle"]
  /\ loc = [p \in Procs |-> Idle]
  /\ ncalls = 0
  /\ calls = <<>>
  /\ writes = <<>>
  /\ args = Unused /\ res = Unused /\ utype = Unused /\ u = Unused
  /\ uvec = Unused

\* declareRosBoolean without the hasParam test: the default is always written
declareRosBoolean_alwaysSet(p, name, default_value) ==
  /\ pc[p] = "idle" /\ ncalls < MaxBoolCalls
  /\ ncalls' = ncalls + 1
  /\ loc' = [loc EXCEPT ![p] =
               [fn |-> "declareRosBoolean", id |-> ncalls + 1,
                name |-> name, default_value |-> default_value,
                node |-> store, present |-> hasParam(store, name),
                hasAt |-> Len(writes), readAt |-> 0, retSet |-> FALSE,
                ret |-> FALSE]]
  /\ pc' = [pc EXCEPT ![p] = "setParam"]
  /\ UNCHANGED <<args, res, store, utype, u, uvec, calls, writes>>

\* line 210: entry of declareRosBoolean(node, name, default_value) and the
\* test !node->hasParam(name)
declareRosBoolean_hasParam(p, name, default_value) ==
  /\ pc[p] = "idle" /\ ncalls < MaxBoolCalls
  /\ ncalls' = ncalls + 1
  /\ loc' = [loc EXCEPT ![p] =
               [fn |-> "declareRosBoolean", id |-> ncalls + 1,
                name |-> name, default_value |-> default_value,
                node |-> store, present |-> hasParam(store, name),
                hasAt |-> Len(writes), readAt |-> 0, retSet |-> FALSE,
                ret |-> FALSE]]
  /\ pc' = [pc EXCEPT ![p] = IF ~hasParam(store, name) THEN "setParam"
                                                       ELSE "getParam"]
  /\ UNCHANGED <<args, res, store, utype, u, uvec, calls, writes>>

\* line 211: node->setParam(name, default_value)
declareRosBoolean_setParam(p) ==
  /\ pc[p] = "setParam"
  /\ store' = setParamBool(store, loc[p].name, loc[p].default_value)
  /\ writes' = Append(writes, [id |-> loc[p].id, p |-> p,
                               name |-> loc[p].name,
                               val |-> loc[p].default_value])
  /\ pc' = [pc EXCEPT ![p] = "getParam"]
  /\ UNCHANGED <<args, res, utype, u, uvec, ncalls, calls, loc>>

\* the record of a completed boolean accessor call
BoolCall(l, outcome) == l @@ [outcome |-> outcome]

\* declareRosBoolean taking its own default as the value read back
declareRosBoolean_noReadBack(p) ==
  /\ pc[p] = "getParam"
  /\ loc' = [loc EXCEPT ![p] = [loc[p] EXCEPT !.readAt = Len(writes),
                                              !.retSet = TRUE,
                                              !.ret = loc[p].default_value]]
  /\ pc' = [pc EXCEPT ![p] = "end"]
  /\ UNCHANGED <<args, res, store, utype, u, uvec, ncalls, calls, writes>>

\* lines 215-217: node->getParam(name, ret), throwing when it fails
declareRosBoolean_getParam(p) ==
  /\ pc[p] = "getParam"
  /\ LET got == getParamBool(store, loc[p].name)
         l == [loc[p] EXCEPT !.readAt = Len(writes)]
     IN  IF ~got.found
           THEN /\ calls' = Append(calls,
                                   BoolCall(l, Raised(TypeError(l.name))))
                /\ loc' = [loc EXCEPT ![p] = Idle]
                /\ pc' = [pc EXCEPT ![p] = "idle"]
           ELSE /\ loc' = [loc EXCEPT ![p] = [l EXCEPT !.retSet = TRUE,
                                                        !.ret = got.val]]
                /\ pc' = [pc EXCEPT ![p] = "end"]
                /\ UNCHANGED calls
  /\ UNCHANGED <<args, res, store, utype, u, uvec, ncalls, writes>>

\* line 218: the closing brace, reached without a return statement
declareRosBoolean_end(p) ==
  /\ pc[p] = "end"
  /\ \E o \in FlowsOffEnd(loc[p].name) :
       /\ calls' = Append(calls, BoolCall(loc[p], o))
       /\ pc' = [pc EXCEPT ![p] = IF o = Crashed THEN "crashed" ELSE "idle"]
  /\ loc' = [loc EXCEPT ![p] = Idle]
  /\ UNCHANGED <<args, res, store, utype, u, uvec, ncalls, writes>>

\* getRosBoolean returning false instead of throwing when getParam fails
getRosBoolean_noThrow(p, name) ==
  /\ pc[p] = "idle" /\ ncalls < MaxBoolCalls
  /\ ncalls' = ncalls + 1
  /\ UNCHANGED store
  /\ LET got == getParamBool(store, name)
         l == [fn |-> "getRosBoolean", id |-> ncalls + 1, name |-> name,
               node |-> store, after |-> store', reads |-> 1]
     IN  calls' = Append(calls,
                    BoolCall(l, IF ~got.found THEN Returned(FALSE)
                                              ELSE Returned(got.val)))
  /\ UNCHANGED <<args, res, utype, u, uvec, pc, loc, writes>>

\* getRosBoolean(node, name): one getParam, throwing when it fails
getRosBoolean(p, name) ==
  /\ pc[p] = "idle" /\ ncalls < MaxBoolCalls
  /\ ncalls' = ncalls + 1
  /\ UNCHANGED store
  /\ LET got == getParamBool(store, name)
         l == [fn |-> "getRosBoolean", id |-> ncalls + 1, name |-> name,
               node |-> store, after |-> store', reads |-> 1]
     IN  calls' = Append(calls,
                    BoolCall(l, IF ~got.found THEN Raised(TypeError(name))
                                              ELSE Returned(got.val)))
  /\ UNCHANGED <<args, res, utype, u, uvec, pc, loc, writes>>

StepBool(p) ==
  \/ \E name \in Keys, d \in BOOLEAN : declareRosBoolean_hasParam(p, name, d)
  \/ declareRosBoolean_setParam(p)
  \/ declareRosBoolean_getParam(p)
  \/ declareRosBoolean_end(p)
  \/ \E name \in Keys : getRosBoolean(p, name)

\* callers run concurrently: any caller may take its next step
NextBool == \E p \in Procs : StepBool(p)

SpecBool == InitBool /\ [][NextBool]_vars

\* callers run one call after the other: a caller steps only while no other
\* caller is inside a call
Alone(p) == \A q \in Procs \ {p} : pc[q] \in {"idle", "crashed"}

NextBoolSeq ==
  \E p \in Procs :
    \/ \E name \in Keys, d \in BOOLEAN :
         Alone(p) /\ declareRosBoolean_hasParam(p, name, d)
    \/ Alone(p) /\ declareRosBoolean_setParam(p)
    \/ Alone(p) /\ declareRosBoolean_getParam(p)
    \/ Alone(p) /\ declareRosBoolean_end(p)
    \/ \E name \in Keys : Alone(p) /\ getRosBoolean(p, name)

SpecBoolSeq == InitBool /\ [][NextBoolSeq]_vars

----------------------------------------------------------------------------
(* Claims about the boolean accessors *)

\* the completed calls of one accessor, by their position in calls
CallsOf(fn) == {i \in 1..Len(calls) : calls[i].fn = fn}

\* the store writes made by the call with identifier id
WritesBy(id) == {k \in 1..Len(writes) : writes[k].id = id}

\* C6: sequential declareRosBoolean calls on one key.  A call on an absent
\* key writes its default exactly once, a call on a present key never
\* writes; after a call on an absent key with default d1, the store holds
\* d1, a later call (with any default) reads back d1 and every later
\* getRosBoolean returns d1.
C6_SequentialDeclareSeedsOnce ==
  \A i \in CallsOf("declareRosBoolean") :
    LET c == calls[i]
    IN  /\ IF c.node[c.name] = Absent
             THEN /\ Cardinality(WritesBy(c.id)) = 1
                  /\ \A k \in WritesBy(c.id) :
                       writes[k].val = c.default_value
             ELSE WritesBy(c.id) = {}
        /\ c.node[c.name] = Absent =>
             /\ store[c.name] = BoolValue(c.default_value)
             /\ \A j \in CallsOf("declareRosBoolean") :
                  (j > i /\ calls[j].name = c.name) =>
                    (calls[j].retSet /\ calls[j].ret = c.default_value)
             /\ \A g \in CallsOf("getRosBoolean") :
                  (g > i /\ calls[g].name = c.name) =>
                    calls[g].outcome = Returned(c.default_value)

\* C6 witness: declare(d1) on an absent key, then declare(d2) with d2 # d1
\* reading back d1, then getRosBoolean returning d1.
C6_Witness ==
  /\ Len(calls) = 3
  /\ calls[1].fn = "declareRosBoolean" /\ calls[1].node[calls[1].name] = Absent
  /\ calls[2].fn = "declareRosBoolean"
  /\ calls[2].default_value # calls[1].default_value
  /\ calls[2].retSet /\ calls[2].ret = calls[1].default_value
  /\ calls[3].fn = "getRosBoolean"
  /\ calls[3].outcome = Returned(calls[1].default_value)

\* two declareRosBoolean calls with different defaults, the first two calls
\* made, on a key absent when the first of them started, both returned
ConcurrentPair(i, j) ==
  /\ i \in CallsOf("declareRosBoolean") /\ j \in CallsOf("declareRosBoolean")
  /\ calls[i].id = 1 /\ calls[j].id = 2
  /\ calls[i].name = calls[j].name
  /\ calls[i].default_value # calls[j].default_value
  /\ calls[i].node[calls[i].name] = Absent
  /\ calls[i].outcome.kind = "returned" /\ calls[j].outcome.kind = "returned"

\* C7 (as stated): with two concurrent declareRosBoolean calls with
\* different defaults on an initially absent key, the key is written by at
\* most one of them, both read back the same value, and the store is left
\* with the value written first.
C7_FirstCallerWins ==
  \A i, j \in 1..Len(calls) :
    ConcurrentPair(i, j) =>
      /\ Cardinality(WritesBy(1) \cup WritesBy(2)) <= 1
      /\ calls[i].retSet /\ calls[j].retSet /\ calls[i].ret = calls[j].ret
      /\ store[calls[i].name] = BoolValue(writes[1].val)

\* C7 (amended): each declareRosBoolean call writes the key at most once,
\* and exactly when its own hasParam step saw the key absent, so concurrent
\* calls may both write; a call whose hasParam step follows a write does not
\* write; each call reads back the value most recently written before its
\* getParam step; the store is left with the value written last.
C7_LastWriteWins ==
  /\ \A i \in CallsOf("declareRosBoolean") :
       LET c == calls[i]
       IN  /\ Cardinality(WritesBy(c.id)) <= 1
           /\ (WritesBy(c.id) # {}) <=> ~c.present
           /\ \A k \in WritesBy(c.id) : writes[k].val = c.default_value
           /\ c.hasAt > 0 => WritesBy(c.id) = {}
           /\ (c.retSet /\ c.readAt > 0) =>
                c.ret = writes[c.readAt].val
  /\ \A k \in 1..Len(writes) :
       k = Len(writes) => store[writes[k].name] = BoolValue(writes[k].val)

\* C7 witness: two overlapping calls both wrote, read back different values,
\* and the store holds the second value written, not the first.
C7_Witness ==
  \E i, j \in 1..Len(calls) :
    /\ ConcurrentPair(i, j)
    /\ WritesBy(1) # {} /\ WritesBy(2) # {}
    /\ calls[i].retSet /\ calls[j].retSet /\ calls[i].ret # calls[j].ret
    /\ store[calls[i].name] = BoolValue(writes[2].val)
    /\ writes[2].val # writes[1].val

\* C8: getRosBoolean raises the type failure naming the parameter if and
\* only if the key is absent or not boolean; otherwise it returns the
\* stored boolean; it reads once and leaves the store unchanged; after a
\* declareRosBoolean that returned, it never raises.
C8_GetBooleanRaisesIffNotBoolean ==
  \A g \in CallsOf("getRosBoolean") :
    LET c == calls[g]
    IN  /\ IF c.node[c.name].type # "bool"
             THEN c.outcome = Raised(TypeError(c.name))
             ELSE c.outcome = Returned(c.node[c.name].flag)
        /\ c.reads = 1 /\ c.after = c.node
        /\ \A i \in CallsOf("declareRosBoolean") :
             (i < g /\ calls[i].name = c.name
                /\ calls[i].outcome.kind = "returned") =>
               c.outcome.kind = "returned"

\* C8 witness: getRosBoolean raised on a key that is not boolean, then a
\* declareRosBoolean returned and a later getRosBoolean returned the value.
C8_Witness ==
  /\ Len(calls) = 3
  /\ calls[1].fn = "getRosBoolean" /\ calls[1].outcome.kind = "raised"
  /\ calls[2].fn = "declareRosBoolean" /\ calls[2].outcome.kind = "returned"
  /\ calls[3].fn = "getRosBoolean"
  /\ calls[3].outcome = Returned(calls[2].default_value)

----------------------------------------------------------------------------
(* Calendar to epoch conversion *)

EpochYear == 1970

SecondsPerDay == 86400

\* the number days * 86400 + sod, for 0 <= sod < 86400, in limbs
Seconds(days, sod) ==
  LET low == days * (SecondsPerDay - Limb) + sod
  IN  Num(days + (low \div Limb), low % Limb)

IsLeap(y) == (y % 4 = 0 /\ y % 100 # 0) \/ y % 400 = 0

DaysInMonth(y, m) ==
  IF m = 2 THEN (IF IsLeap(y) THEN 29 ELSE 28)
  ELSE IF m \in {4, 6, 9, 11} THEN 30 ELSE 31

\* leap years among the years 1 .. y-1
LeapsBefore(y) == ((y - 1) \div 4) - ((y - 1) \div 100) + ((y - 1) \div 400)

\* days from the first day of the epoch year to the first day of year y
DaysBeforeYear(y) ==
  365 * (y - EpochYear) + LeapsBefore(y) - LeapsBefore(EpochYear)

\* days from the first day of year y to the first day of its month m
RECURSIVE DaysBeforeMonth(_, _)
DaysBeforeMonth(y, m) ==
  IF m <= 1 THEN 0 ELSE DaysBeforeMonth(y, m - 1) + DaysInMonth(y, m - 1)

\* mkgmtime(struct tm*): the fields of tm read as UTC, in seconds since
\* the epoch, by counting days in the proleptic Gregorian calendar
mkgmtime(tm) ==
  LET y == tm.tm_year + 1900
      m == tm.tm_mon + 1
      days == DaysBeforeYear(y) + DaysBeforeMonth(y, m) + (tm.tm_mday - 1)
  IN  Seconds(days, 3600 * tm.tm_hour + 60 * tm.tm_min + tm.tm_sec)

\* toUtcSeconds with tm_mon set to the month number itself
toUtcSeconds_monthFromOne(msg) ==
  mkgmtime([tm_year |-> msg.year - 1900, tm_mon |-> msg.month,
            tm_mday |-> msg.day, tm_hour |-> msg.hour, tm_min |-> msg.min,
            tm_sec |-> msg.sec])

\* long toUtcSeconds(const NavPVT& msg)
toUtcSeconds(msg) ==
  mkgmtime([tm_year |-> msg.year - 1900, tm_mon |-> msg.month - 1,
            tm_mday |-> msg.day, tm_hour |-> msg.hour, tm_min |-> msg.min,
            tm_sec |-> msg.sec])

\* times of day the inputs are drawn from
TimesOfDay == {<<0, 0, 0>>, <<12, 30, 15>>, <<23, 59, 59>>}

\* the valid UTC date-times of the window
CalendarArgs ==
  UNION {[fn : {"toUtcSeconds"}, year : {y}, month : {m},
          day : 1..DaysInMonth(y, m), hour : {t[1]}, min : {t[2]},
          sec : {t[3]}]
           : <<y, m, t>> \in ((EpochYear - YearsBefore)..(EpochYear + YearsAfter))
                               \X (1..12) \X TimesOfDay}

InitTime ==
  /\ args \in CalendarArgs
  /\ res = NoResult
  /\ store = Unused /\ utype = Unused /\ u = Unused /\ uvec = Unused
  /\ ncalls = Unused /\ calls = Unused /\ pc = Unused /\ loc = Unused
  /\ writes = Unused

CallToUtcSeconds ==
  /\ res = NoResult
  /\ res' = [fn |-> "toUtcSeconds", secs |-> toUtcSeconds(args)]
  /\ UNCHANGED <<args, store, utype, u, uvec, ncalls, calls, pc, loc, writes>>

NextTime == CallToUtcSeconds

SpecTime == InitTime /\ [][NextTime]_vars

\* the proleptic Gregorian day count since 1970-01-01 by the era method
\* (400-year eras of 146097 days, years counted from March)
DaysFromCivil(y, m, d) ==
  LET yy == IF m <= 2 THEN y - 1 ELSE y
      era == yy \div 400
      yoe == yy - era * 400
      mp == IF m > 2 THEN m - 3 ELSE m + 9
      doy == ((153 * mp + 2) \div 5) + d - 1
      doe == yoe * 365 + (yoe \div 4) - (yoe \div 100) + doy
  IN  era * 146097 + doe - 719468

Date(y, m, d) ==
  [fn |-> "toUtcSeconds", year |-> y, month |-> m, day |-> d, hour |-> 0,
   min |-> 0, sec |-> 0]

\* C9: for every valid UTC date-time of the window, toUtcSeconds returns
\* 86400 times the proleptic Gregorian day count since 1970-01-01 plus
\* 3600*hour + 60*min + sec: 0 for 1970-01-01T00:00:00, a negative value
\* for earlier dates, and one day more for 2000-03-01 than for 2000-02-29.
C9_UtcSecondsIsDayCountTimes86400 ==
  /\ res.fn = "toUtcSeconds" =>
       /\ res.secs = Seconds(DaysFromCivil(args.year, args.month, args.day),
                             3600 * args.hour + 60 * args.min + args.sec)
       /\ args.year < EpochYear => IsNeg(res.secs)
       /\ args.year >= EpochYear => ~IsNeg(res.secs)
       /\ args = Date(1970, 1, 1) => res.secs = FromInt(0)
  /\ toUtcSeconds(Date(2000, 3, 1))
       = Plus(toUtcSeconds(Date(2000, 2, 29)), SecondsPerDay)

\* C9 witness: the conversion of 1900-03-01T00:00:00, the day after
\* February 28th of a century year that is not a leap year, 25508 days
\* before the epoch.
C9_Witness ==
  /\ res.fn = "toUtcSeconds"
  /\ args = Date(1900, 3, 1)
  /\ res.secs = Seconds(-25508, 0)
  /\ IsNeg(res.secs)

====
